---- MODULE Spec2Model ----
(***************************************************************************)
(* TestPerformanceReport.py: a pool of queue worker threads probes a list  *)
(* of hostnames (DNS, TCP connect samples, HTTP HEAD, content samples)     *)
(* and stores one dict per hostname in the shared dict host_perfs.         *)
(***************************************************************************)
EXTENDS Integers, Sequences, FiniteSets, TLC

\* ---------------------------------------------------------------- bounds
MaxHosts   == 2      \* longest input file (lines)
MaxTime    == 2      \* last clock reading, seconds since z_s

Hosts     == {"a", "b"}          \* hostnames the input file may hold
Timeouts  == {0, 1}              \* values of -o/--timeout
DnsDurations     == {1}          \* dns_end - dns_start
TcpDurations     == {1, 2}       \* tcp_end - tcp_start
ContentDurations == {3}          \* content_end - content_start
Redirects == {0}                 \* len(host_head.history)
Statuses  == {200, 404}          \* final status of the HEAD request
None      == "None"              \* the stop sentinel put on the queue
\* the <<-t/--threads, -T/--tests>> pairs of the command line: two queue threads,
\* or two test threads per fan-out
ThreadOptions == {<<1, 1>>, <<2, 1>>, <<1, 2>>}

Workers   == UNION {1..c[1] : c \in ThreadOptions}
SampleIds == UNION {1..c[2] : c \in ThreadOptions}

VARIABLES
    options,          \* parsed command line: num_threads, timeout, test_threads
    host_list,        \* hostnames read from the input file
    z_s,              \* start time of the script
    now,              \* the wall clock, time.time()
    q,                \* queue.Queue: the items waiting
    unfinished,       \* queue.Queue.unfinished_tasks
    host_perfs,       \* shared result dict: hostname -> performance_output
    mainpc,           \* position of main()
    mi,               \* loop index of main()'s current for loop
    wpc,              \* position of each worker thread
    h,                \* the hostname a worker dequeued
    o,                \* performance_output of the worker's TestPerformance object
    tcp_times,        \* o.tcp_times
    tcp_threads,      \* o.tcp_threads: one record per started sample thread
    content_times,    \* o.content_times
    content_threads,  \* o.content_threads
    exc,              \* the exception that ended a worker thread, "" if none
    exited            \* os._exit(1) was called: the process is gone

vars == <<options, host_list, z_s, now, q, unfinished, host_perfs, mainpc, mi,
          wpc, h, o, tcp_times, tcp_threads, content_times, content_threads,
          exc, exited>>

mainVars   == <<mainpc, mi>>
queueVars  == <<q, unfinished>>
probeVars  == <<o, tcp_times, tcp_threads, content_times, content_threads>>
inputVars  == <<options, host_list, z_s>>

\* ------------------------------------------------------------ pure helpers
EmptyDict == [x \in {} |-> 0]

\* d[k] = v on a Python dict
DictSet(d, k, v) == [x \in DOMAIN d \cup {k} |-> IF x = k THEN v ELSE d[x]]

RECURSIVE Sum(_)
Sum(s) == IF s = <<>> THEN 0 ELSE Head(s) + Sum(Tail(s))

RECURSIVE Gcd(_, _)
Gcd(a, b) == IF b = 0 THEN a ELSE Gcd(b, a % b)

\* an exact quotient n/d, d > 0, as a reduced fraction <<numerator, denominator>>
Fraction(n, d) == LET g == Gcd(n, d) IN <<n \div g, d \div g>>

\* statistics.mean(data) of a non-empty list; the empty list raises StatisticsError
mean(data) == Fraction(Sum(data), Len(data))

\* every hostname sequence of length 0..n
RECURSIVE SeqsUpTo(_)
SeqsUpTo(n) ==
    IF n = 0 THEN {<<>>}
    ELSE LET shorter == SeqsUpTo(n - 1)
         IN shorter \cup {Append(s, x) : s \in {t \in shorter : Len(t) = n - 1}, x \in Hosts}

\* the input files, up to the renaming of hostnames: "a" is the first name read
HostLists == {s \in SeqsUpTo(MaxHosts) : s = <<>> \/ s[1] = "a"}

\* a sample thread: running, ended with its duration appended, or ended by an exception
Running      == [st |-> "run", d |-> 0]
Finished(d)  == [st |-> "ok", d |-> d]
Raised       == [st |-> "raised", d |-> 0]

AllJoined(threads) == \A i \in 1..Len(threads) : threads[i].st # "run"

\* -------------------------------------------------------------------- Init
Init ==
    /\ options \in {[num_threads |-> c[1], timeout |-> t, test_threads |-> c[2]] :
                        c \in ThreadOptions, t \in Timeouts}
    /\ host_list \in HostLists
    /\ z_s = 0
    /\ now = 0
    /\ q = <<>>
    /\ unfinished = 0
    /\ host_perfs = EmptyDict
    /\ mainpc = "start_threads"
    /\ mi = 0
    /\ wpc = [w \in Workers |-> "unstarted"]
    /\ h = [w \in Workers |-> None]
    /\ o = [w \in Workers |-> EmptyDict]
    /\ tcp_times = [w \in Workers |-> <<>>]
    /\ tcp_threads = [w \in Workers |-> <<>>]
    /\ content_times = [w \in Workers |-> <<>>]
    /\ content_threads = [w \in Workers |-> <<>>]
    /\ exc = [w \in Workers |-> ""]
    /\ exited = FALSE

\* the process runs until os._exit or until main() returns
Alive == ~exited /\ mainpc # "done"

\* ------------------------------------------------------------------ clock
Tick ==
    /\ Alive
    /\ now < MaxTime
    /\ now' = now + 1
    /\ UNCHANGED <<inputVars, queueVars, host_perfs, mainVars, wpc, h, probeVars,
                   exc, exited>>

\* ------------------------------------------------------------------ main
\* for i in range(options.num_threads): t = Thread(target=worker); t.start()
MainStartThreads ==
    /\ Alive
    /\ mainpc = "start_threads"
    /\ IF mi < options.num_threads
       THEN /\ wpc' = [wpc EXCEPT ![mi + 1] = "check"]
            /\ mi' = mi + 1
            /\ UNCHANGED mainpc
       ELSE /\ mainpc' = "put"
            /\ mi' = 0
            /\ UNCHANGED wpc
    /\ UNCHANGED <<inputVars, now, queueVars, host_perfs, h, probeVars, exc, exited>>

\* for item in host_list: q.put(item)
MainPut ==
    /\ Alive
    /\ mainpc = "put"
    /\ IF mi < Len(host_list)
       THEN /\ q' = Append(q, host_list[mi + 1])
            /\ unfinished' = unfinished + 1
            /\ mi' = mi + 1
            /\ UNCHANGED mainpc
       ELSE /\ mainpc' = "q_join"
            /\ mi' = 0
            /\ UNCHANGED queueVars
    /\ UNCHANGED <<inputVars, now, host_perfs, wpc, h, probeVars, exc, exited>>

\* MainQJoin as it would be without the q.join() call
MainQJoinNoWait ==
    /\ Alive
    /\ mainpc = "q_join"
    /\ mainpc' = "stop"
    /\ UNCHANGED <<inputVars, now, queueVars, host_perfs, mi, wpc, h, probeVars,
                   exc, exited>>

\* q.join(): blocks until unfinished_tasks is zero
MainQJoin ==
    /\ Alive
    /\ mainpc = "q_join"
    /\ unfinished = 0
    /\ mainpc' = "stop"
    /\ UNCHANGED <<inputVars, now, queueVars, host_perfs, mi, wpc, h, probeVars,
                   exc, exited>>

\* for i in range(options.num_threads): q.put(None)
MainStop ==
    /\ Alive
    /\ mainpc = "stop"
    /\ IF mi < options.num_threads
       THEN /\ q' = Append(q, None)
            /\ unfinished' = unfinished + 1
            /\ mi' = mi + 1
            /\ UNCHANGED mainpc
       ELSE /\ mainpc' = "t_join"
            /\ mi' = 0
            /\ UNCHANGED queueVars
    /\ UNCHANGED <<inputVars, now, host_perfs, wpc, h, probeVars, exc, exited>>

\* a thread can be joined once its target returned or raised
Ended(w) == wpc[w] \in {"stopped", "dead"}

\* MainJoinThreads as it would be without the t.join() loop
MainJoinThreadsNoWait ==
    /\ Alive
    /\ mainpc = "t_join"
    /\ mainpc' = "output"
    /\ UNCHANGED <<inputVars, now, queueVars, host_perfs, mi, wpc, h, probeVars,
                   exc, exited>>

\* for t in threads: t.join()
MainJoinThreads ==
    /\ Alive
    /\ mainpc = "t_join"
    /\ \A w \in 1..options.num_threads : Ended(w)
    /\ mainpc' = "output"
    /\ UNCHANGED <<inputVars, now, queueVars, host_perfs, mi, wpc, h, probeVars,
                   exc, exited>>

\* json.dump(host_perfs, f) or the print loop: host_perfs goes to the output
MainOutput ==
    /\ Alive
    /\ mainpc = "output"
    /\ mainpc' = "done"
    /\ UNCHANGED <<inputVars, now, queueVars, host_perfs, mi, wpc, h, probeVars,
                   exc, exited>>

main == MainStartThreads \/ MainPut \/ MainQJoin \/ MainStop \/ MainJoinThreads
            \/ MainOutput

\* ---------------------------------------------------------------- worker
\* Raise as it would be with a try/except around do_work() in worker() that
\* goes on to q.task_done()
RaiseCaught(w, e) ==
    /\ wpc' = [wpc EXCEPT ![w] = "task_done"]
    /\ UNCHANGED exc

\* an exception leaves worker(): the thread ends and threading reports the exception
Raise(w, e) ==
    /\ wpc' = [wpc EXCEPT ![w] = "dead"]
    /\ exc' = [exc EXCEPT ![w] = e]

Goto(w, pc) ==
    /\ wpc' = [wpc EXCEPT ![w] = pc]
    /\ UNCHANGED exc

\* DeadlinePassed as it would be without the test `if options.timeout:`
DeadlinePassedUnguarded == z_s + options.timeout < now

\* the deadline test of worker(): options.timeout is set and z_s + timeout < time.time()
DeadlinePassed == options.timeout # 0 /\ z_s + options.timeout < now

\* top of the while loop: raise TimeoutError -> print -> os._exit(1)
worker_check(w) ==
    /\ Alive
    /\ wpc[w] = "check"
    /\ IF DeadlinePassed
       THEN /\ exited' = TRUE
            /\ UNCHANGED <<wpc, exc>>
       ELSE /\ Goto(w, "get")
            /\ UNCHANGED exited
    /\ UNCHANGED <<inputVars, now, queueVars, host_perfs, mainVars, h, probeVars>>

\* worker_get as it would be reading the head of the queue without removing it
\* (h = q.queue[0])
worker_get_peek(w) ==
    /\ Alive
    /\ wpc[w] = "get"
    /\ q # <<>>
    /\ h' = [h EXCEPT ![w] = Head(q)]
    /\ Goto(w, IF Head(q) = None THEN "stopped" ELSE "init")
    /\ UNCHANGED <<inputVars, now, queueVars, host_perfs, mainVars, probeVars, exited>>

\* h = q.get(); if h is None: break
worker_get(w) ==
    /\ Alive
    /\ wpc[w] = "get"
    /\ q # <<>>
    /\ q' = Tail(q)
    /\ h' = [h EXCEPT ![w] = Head(q)]
    /\ Goto(w, IF Head(q) = None THEN "stopped" ELSE "init")
    /\ UNCHANGED <<inputVars, now, unfinished, host_perfs, mainVars, probeVars, exited>>

\* 'IP of Domain' as socket.gethostbyname(hostname) returns it
IpOf(hostname) == <<"ip", hostname>>

\* o = TestPerformance(hostname): the DNS lookup succeeds or raises socket.gaierror
TestPerformance_init(w) ==
    /\ Alive
    /\ wpc[w] = "init"
    /\ \/ /\ Raise(w, "gaierror")
          /\ UNCHANGED o
       \/ /\ \E d \in DnsDurations :
                o' = [o EXCEPT ![w] = DictSet(DictSet(EmptyDict, "DNS Time", d),
                                              "IP of Domain", IpOf(h[w]))]
          /\ Goto(w, "test_all")
    /\ UNCHANGED <<inputVars, now, queueVars, host_perfs, mainVars, h, tcp_times,
                   tcp_threads, content_times, content_threads, exited>>

\* test_all(): tcp_t = Thread(target=self.tcp_time); tcp_t.start(); append
\* (self.tcp_times and self.tcp_threads of a new object start empty)
test_all_start(w) ==
    /\ Alive
    /\ wpc[w] = "test_all"
    /\ Len(tcp_threads[w]) < options.test_threads
    /\ tcp_threads' = [tcp_threads EXCEPT ![w] = Append(@, Running)]
    /\ UNCHANGED <<inputVars, now, queueVars, host_perfs, mainVars, wpc, h, o,
                   tcp_times, content_times, content_threads, exc, exited>>

\* tcp_time as it would be with self.tcp_times = self.tcp_times + [d] computed
\* from the list as it was when the thread started (empty): a concurrent append
\* is lost
tcp_time_stale_append(w, i) ==
    /\ Alive
    /\ i \in 1..Len(tcp_threads[w])
    /\ tcp_threads[w][i] = Running
    /\ \/ /\ tcp_threads' = [tcp_threads EXCEPT ![w][i] = Raised]
          /\ UNCHANGED tcp_times
       \/ \E d \in TcpDurations :
             /\ tcp_times' = [tcp_times EXCEPT ![w] = <<d>>]
             /\ tcp_threads' = [tcp_threads EXCEPT ![w][i] = Finished(d)]
    /\ UNCHANGED <<inputVars, now, queueVars, host_perfs, mainVars, wpc, h, o,
                   content_times, content_threads, exc, exited>>

\* tcp_time as it would be with the append in a finally clause: a failed connect
\* appends a duration too
tcp_time_appends_on_error(w, i) ==
    /\ Alive
    /\ i \in 1..Len(tcp_threads[w])
    /\ tcp_threads[w][i] = Running
    /\ \E d \in TcpDurations :
          /\ tcp_times' = [tcp_times EXCEPT ![w] = Append(@, d)]
          /\ \/ tcp_threads' = [tcp_threads EXCEPT ![w][i] = Raised]
             \/ tcp_threads' = [tcp_threads EXCEPT ![w][i] = Finished(d)]
    /\ UNCHANGED <<inputVars, now, queueVars, host_perfs, mainVars, wpc, h, o,
                   content_times, content_threads, exc, exited>>

\* tcp_time() in its own thread: s.connect raises, or the duration is appended
tcp_time(w, i) ==
    /\ Alive
    /\ i \in 1..Len(tcp_threads[w])
    /\ tcp_threads[w][i] = Running
    /\ \/ /\ tcp_threads' = [tcp_threads EXCEPT ![w][i] = Raised]
          /\ UNCHANGED tcp_times
       \/ \E d \in TcpDurations :
             /\ tcp_times' = [tcp_times EXCEPT ![w] = Append(@, d)]
             /\ tcp_threads' = [tcp_threads EXCEPT ![w][i] = Finished(d)]
    /\ UNCHANGED <<inputVars, now, queueVars, host_perfs, mainVars, wpc, h, o,
                   content_times, content_threads, exc, exited>>

\* test_all(): join every tcp thread, then 'Average TCP Time' = mean(self.tcp_times)
test_all_join(w) ==
    /\ Alive
    /\ wpc[w] = "test_all"
    /\ Len(tcp_threads[w]) = options.test_threads
    /\ AllJoined(tcp_threads[w])
    /\ IF tcp_times[w] = <<>>
       THEN /\ Raise(w, "StatisticsError")
            /\ UNCHANGED o
       ELSE /\ o' = [o EXCEPT ![w] = DictSet(@, "Average TCP Time", mean(tcp_times[w]))]
            /\ Goto(w, "get_http")
    /\ UNCHANGED <<inputVars, now, queueVars, host_perfs, mainVars, h, tcp_times,
                   tcp_threads, content_times, content_threads, exited>>

\* get_http_head as it would be without the test host_code == 200
get_http_head_any_status(w) ==
    /\ Alive
    /\ wpc[w] = "get_http"
    /\ \/ /\ Raise(w, "ConnectionError")
          /\ UNCHANGED o
       \/ \E host_code \in Statuses, history \in Redirects :
             /\ o' = [o EXCEPT ![w] = DictSet(DictSet(@, "HTTP Response Code", host_code),
                                              "Number of Redirects", history)]
             /\ Goto(w, "content")
    /\ UNCHANGED <<inputVars, now, queueVars, host_perfs, mainVars, h, tcp_times,
                   tcp_threads, content_times, content_threads, exited>>

\* get_http(): requests.head(..., allow_redirects=True) raises, or the final
\* status and the redirect history are recorded; 200 goes on to the content threads
get_http_head(w) ==
    /\ Alive
    /\ wpc[w] = "get_http"
    /\ \/ /\ Raise(w, "ConnectionError")
          /\ UNCHANGED o
       \/ \E host_code \in Statuses, history \in Redirects :
             /\ o' = [o EXCEPT ![w] = DictSet(DictSet(@, "HTTP Response Code", host_code),
                                              "Number of Redirects", history)]
             /\ Goto(w, IF host_code = 200 THEN "content" ELSE "store")
    /\ UNCHANGED <<inputVars, now, queueVars, host_perfs, mainVars, h, tcp_times,
                   tcp_threads, content_times, content_threads, exited>>

\* get_http(): r = requests.get(..., stream=True) in the worker thread, which may
\* raise; then Thread(target=self.time_content, args=(r,)).start(); append
get_http_get(w) ==
    /\ Alive
    /\ wpc[w] = "content"
    /\ Len(content_threads[w]) < options.test_threads
    /\ \/ /\ Raise(w, "ConnectionError")
          /\ UNCHANGED content_threads
       \/ /\ content_threads' = [content_threads EXCEPT ![w] = Append(@, Running)]
          /\ UNCHANGED <<wpc, exc>>
    /\ UNCHANGED <<inputVars, now, queueVars, host_perfs, mainVars, h, o, tcp_times,
                   tcp_threads, content_times, exited>>

\* time_content as it would be with the append in a finally clause: a failed
\* download appends a duration too
time_content_appends_on_error(w, i) ==
    /\ Alive
    /\ i \in 1..Len(content_threads[w])
    /\ content_threads[w][i] = Running
    /\ \E d \in ContentDurations :
          /\ content_times' = [content_times EXCEPT ![w] = Append(@, d)]
          /\ \/ content_threads' = [content_threads EXCEPT ![w][i] = Raised]
             \/ content_threads' = [content_threads EXCEPT ![w][i] = Finished(d)]
    /\ UNCHANGED <<inputVars, now, queueVars, host_perfs, mainVars, wpc, h, o,
                   tcp_times, tcp_threads, exc, exited>>

\* time_content(response) in its own thread: response.content raises, or the
\* duration is appended
time_content(w, i) ==
    /\ Alive
    /\ i \in 1..Len(content_threads[w])
    /\ content_threads[w][i] = Running
    /\ \/ /\ content_threads' = [content_threads EXCEPT ![w][i] = Raised]
          /\ UNCHANGED content_times
       \/ \E d \in ContentDurations :
             /\ content_times' = [content_times EXCEPT ![w] = Append(@, d)]
             /\ content_threads' = [content_threads EXCEPT ![w][i] = Finished(d)]
    /\ UNCHANGED <<inputVars, now, queueVars, host_perfs, mainVars, wpc, h, o,
                   tcp_times, tcp_threads, exc, exited>>

\* get_http(): join every content thread, then
\* 'Average Content Load Time' = mean(self.content_times)
get_http_join(w) ==
    /\ Alive
    /\ wpc[w] = "content"
    /\ Len(content_threads[w]) = options.test_threads
    /\ AllJoined(content_threads[w])
    /\ IF content_times[w] = <<>>
       THEN /\ Raise(w, "StatisticsError")
            /\ UNCHANGED o
       ELSE /\ o' = [o EXCEPT ![w] = DictSet(@, "Average Content Load Time",
                                             mean(content_times[w]))]
            /\ Goto(w, "store")
    /\ UNCHANGED <<inputVars, now, queueVars, host_perfs, mainVars, h, tcp_times,
                   tcp_threads, content_times, content_threads, exited>>

\* do_work(): host_perfs[hostname] = o.performance_output; o goes out of scope
do_work_store(w) ==
    /\ Alive
    /\ wpc[w] = "store"
    /\ host_perfs' = DictSet(host_perfs, h[w], o[w])
    /\ o' = [o EXCEPT ![w] = EmptyDict]
    /\ tcp_times' = [tcp_times EXCEPT ![w] = <<>>]
    /\ tcp_threads' = [tcp_threads EXCEPT ![w] = <<>>]
    /\ content_times' = [content_times EXCEPT ![w] = <<>>]
    /\ content_threads' = [content_threads EXCEPT ![w] = <<>>]
    /\ Goto(w, "task_done")
    /\ UNCHANGED <<inputVars, now, queueVars, mainVars, h, exited>>

\* q.task_done(), then back to the top of the while loop
worker_task_done(w) ==
    /\ Alive
    /\ wpc[w] = "task_done"
    /\ unfinished' = unfinished - 1
    /\ Goto(w, "check")
    /\ UNCHANGED <<inputVars, now, q, host_perfs, mainVars, h, probeVars, exited>>

worker(w) ==
    \/ worker_check(w)
    \/ worker_get(w)
    \/ TestPerformance_init(w)
    \/ test_all_start(w)
    \/ test_all_join(w)
    \/ get_http_head(w)
    \/ get_http_get(w)
    \/ get_http_join(w)
    \/ do_work_store(w)
    \/ worker_task_done(w)

SampleThreads(w) ==
    \E i \in SampleIds : tcp_time(w, i) \/ time_content(w, i)

Next ==
    \/ main
    \/ \E w \in Workers : worker(w)
    \/ \E w \in Workers : SampleThreads(w)
    \/ Tick

Spec == Init /\ [][Next]_vars

\* every thread that can take a step is scheduled sooner or later; the clock is
\* under no obligation
Progress == main \/ \E w \in Workers : worker(w) \/ SampleThreads(w)

Fairness ==
    /\ WF_vars(main)
    /\ \A w \in Workers : WF_vars(worker(w)) /\ WF_vars(SampleThreads(w))

FairSpec == Spec /\ Fairness

\* ------------------------------------------------------------- properties
Range(s) == {s[i] : i \in 1..Len(s)}

\* main() has reached the output code with host_perfs
Returned == mainpc \in {"output", "done"}

\* the samples of a fan-out that ended with a duration, and their mean
Successes(threads) == SelectSeq(threads, LAMBDA t : t.st = "ok")

RECURSIVE SumOfDurations(_)
SumOfDurations(threads) ==
    IF threads = <<>> THEN 0 ELSE Head(threads).d + SumOfDurations(Tail(threads))

MeanOfSuccesses(threads) ==
    Fraction(SumOfDurations(Successes(threads)), Len(Successes(threads)))

\* the TCP fan-out of the worker's current probe is over
TcpFanOutOver(w) ==
    \/ wpc[w] \in {"get_http", "content", "store"}
    \/ wpc[w] = "dead" /\ exc[w] # "gaierror"

\* C1: when a run without timeout hands host_perfs to the output code, its keys
\* are exactly the distinct hostnames of the input.
C1_OneEntryPerHostname ==
    (options.timeout = 0 /\ Returned) => DOMAIN host_perfs = Range(host_list)

\* a run of two workers over a duplicated hostname, one probe ending in status 404
C1_Witness ==
    /\ options.timeout = 0
    /\ mainpc = "output"
    /\ options.num_threads = 2
    /\ host_list = <<"a", "a">>
    /\ DOMAIN host_perfs = {"a"}
    /\ host_perfs["a"]["HTTP Response Code"] = 404

\* C2: without a timeout the run never hangs: until main() has returned, some
\* thread of the process can take a step.
C2_RunReturns ==
    options.timeout = 0 => (mainpc = "done" \/ ENABLED Progress)

\* C3: no network error ends a worker thread.
C3_NoErrorStopsWorker == \A w \in Workers : wpc[w] # "dead"

\* C4: once the deadline has passed, the run eventually terminates.
C4_TimeoutTerminates == DeadlinePassed ~> (exited \/ mainpc = "done")

\* C5: a run ended by the timeout path has handed its results to the caller, and
\* they are fewer than the input hostnames.
C5_TimeoutReturnsTruncated ==
    exited => (Returned /\ Cardinality(DOMAIN host_perfs) < Len(host_list))

\* C6: after the deadline has passed no worker dequeues a hostname to probe.
C6_NoDequeueAfterDeadline ==
    [][DeadlinePassed => \A w \in Workers : ~(wpc[w] = "get" /\ wpc'[w] = "init")]_vars

\* C7: no key of host_perfs is written a second time.
C7_KeyWrittenOnce ==
    [][\A w \in Workers :
        (wpc[w] = "store" /\ wpc'[w] = "task_done") => h[w] \notin DOMAIN host_perfs]_vars

\* the sample operations a fan-out has started when the worker leaves it: the
\* threads, and the streaming GET whose exception ends get_http()
StartedOnLeaving(w, threads) ==
    Len(threads) + (IF wpc'[w] = "dead" /\ Len(threads) < options.test_threads
                    THEN 1 ELSE 0)

\* C8: a worker leaves a fan-out only with test_threads sample operations started,
\* and an average is stored only when all of them have ended.
C8_FanOutRunsAllSamples ==
    [][\A w \in Workers :
        /\ (wpc[w] = "test_all" /\ wpc'[w] # "test_all") =>
              /\ StartedOnLeaving(w, tcp_threads[w]) = options.test_threads
              /\ wpc'[w] = "get_http" => AllJoined(tcp_threads[w])
        /\ (wpc[w] = "content" /\ wpc'[w] # "content") =>
              /\ StartedOnLeaving(w, content_threads[w]) = options.test_threads
              /\ wpc'[w] = "store" => AllJoined(content_threads[w])]_vars

\* C9: once the TCP fan-out of a probe is over, 'Average TCP Time' is in the
\* probe's performance_output exactly if some TCP sample succeeded, and it is
\* then the mean of the durations of the samples that succeeded.
C9_TcpAverage ==
    \A w \in Workers :
        TcpFanOutOver(w) =>
            IF Successes(tcp_threads[w]) = <<>>
            THEN "Average TCP Time" \notin DOMAIN o[w]
            ELSE /\ "Average TCP Time" \in DOMAIN o[w]
                 /\ o[w]["Average TCP Time"] = MeanOfSuccesses(tcp_threads[w])

C9_Witness ==
    \E w \in Workers :
        /\ wpc[w] = "store"
        /\ tcp_threads[w] = <<Finished(1), Raised>>
        /\ o[w]["Average TCP Time"] = <<1, 1>>

\* C10: when every TCP sample of a probe has failed, the probe goes on to the
\* HEAD request.
C10_ProbeContinuesWithoutTcp ==
    [][\A w \in Workers :
        (/\ wpc[w] = "test_all"
         /\ wpc'[w] # "test_all"
         /\ Successes(tcp_threads[w]) = <<>>) => wpc'[w] = "get_http"]_vars


\* a performance_output dict d holds 'Average Content Load Time' exactly if its
\* 'HTTP Response Code' is 200
ContentAverageIffOk(d) ==
    "Average Content Load Time" \in DOMAIN d
        <=> ("HTTP Response Code" \in DOMAIN d /\ d["HTTP Response Code"] = 200)

\* C11: every entry of host_perfs holds 'Average Content Load Time' exactly if
\* its status is 200, and the performance_output a worker is about to store holds
\* it exactly if its status is 200 and some content sample of the probe succeeded.
C11_ContentAverageIffOkAndSampled ==
    /\ \A k \in DOMAIN host_perfs : ContentAverageIffOk(host_perfs[k])
    /\ \A w \in Workers :
          wpc[w] = "store" =>
              /\ ContentAverageIffOk(o[w])
              /\ "Average Content Load Time" \in DOMAIN o[w]
                     <=> Successes(content_threads[w]) # <<>>

\* one entry with status 200 and the average, one with status 404 and without
C11_Witness ==
    /\ DOMAIN host_perfs = {"a", "b"}
    /\ host_perfs["a"]["HTTP Response Code"] = 200
    /\ "Average Content Load Time" \in DOMAIN host_perfs["a"]
    /\ host_perfs["b"]["HTTP Response Code"] = 404
    /\ "Average Content Load Time" \notin DOMAIN host_perfs["b"]

\* C12: when the DNS lookup of a probe fails, no TCP sample and no HTTP request
\* follows, and the worker goes on to store a result for the hostname.
C12_DnsFailureIsRecorded ==
    [][\A w \in Workers :
        (wpc[w] = "init" /\ wpc'[w] # "init" /\ "IP of Domain" \notin DOMAIN o'[w]) =>
            /\ tcp_threads'[w] = <<>>
            /\ content_threads'[w] = <<>>
            /\ wpc'[w] = "store"]_vars

\* a worker that holds a dequeued hostname: between q.get() and q.task_done()
Probing(w) ==
    wpc[w] \in {"init", "test_all", "get_http", "content", "store", "task_done"}

\* C13: once a worker has dequeued the stop sentinel, no hostname is in the
\* queue and no worker is probing one.
C13_StopOnlyWhenDrained ==
    (\E w \in Workers : wpc[w] = "stopped") =>
        /\ \A i \in 1..Len(q) : q[i] = None
        /\ \A v \in Workers : ~Probing(v)

\* the first of two workers has stopped after both hostnames were probed, the
\* second has still to dequeue its sentinel
C13_Witness ==
    /\ options.num_threads = 2
    /\ host_list = <<"a", "b">>
    /\ wpc[1] = "stopped"
    /\ wpc[2] = "get"
    /\ DOMAIN host_perfs = {"a", "b"}

\* C14: main() reads host_perfs only with every worker thread stopped, so that
\* no worker can write to it any more.
C14_ReadAfterWorkersStopped ==
    Returned => \A w \in 1..options.num_threads : wpc[w] = "stopped"

\* main() is about to write out the results two workers have stored
C14_Witness ==
    /\ mainpc = "output"
    /\ options.num_threads = 2
    /\ DOMAIN host_perfs = {"a", "b"}

\* how often x occurs in the list s
Count(s, x) == Cardinality({i \in 1..Len(s) : s[i] = x})

\* the list times holds one duration for each thread of threads that ended with
\* one, and nothing else
HoldsExactlySuccesses(times, threads) ==
    /\ Len(times) = Len(Successes(threads))
    /\ \A x \in Range(times) :
          Count(times, x) = Cardinality({i \in 1..Len(threads) :
                                            threads[i] = Finished(x)})

\* C15: the sample list of a fan-out holds exactly one duration for each of its
\* own samples that succeeded, at every moment and so after the join.
C15_SampleSetExact ==
    \A w \in Workers :
        /\ HoldsExactlySuccesses(tcp_times[w], tcp_threads[w])
        /\ HoldsExactlySuccesses(content_times[w], content_threads[w])

\* both TCP samples of a joined fan-out succeeded, the second appending first
C15_Witness ==
    \E w \in Workers :
        /\ wpc[w] = "get_http"
        /\ tcp_threads[w] = <<Finished(1), Finished(2)>>
        /\ tcp_times[w] = <<2, 1>>

\* C16: a worker is in the content loop of get_http(), or has content threads,
\* only when the HEAD request of its probe ended with status 200.
C16_ContentOnlyAfterOk ==
    \A w \in Workers :
        (wpc[w] = "content" \/ content_threads[w] # <<>>) =>
            /\ "HTTP Response Code" \in DOMAIN o[w]
            /\ o[w]["HTTP Response Code"] = 200

\* a probe whose HEAD ended with 404 is about to be stored, no content sample started
C16_Witness ==
    \E w \in Workers :
        /\ wpc[w] = "store"
        /\ o[w]["HTTP Response Code"] = 404
        /\ content_threads[w] = <<>>
        /\ content_times[w] = <<>>

\* C17: in a run without timeout no worker ever takes the os._exit path.
C17_NoTimeoutNoAbort == options.timeout = 0 => ~exited

\* a worker is back at the deadline test after a probe, two seconds into a run
\* without timeout
C17_Witness ==
    /\ options.timeout = 0
    /\ now > 1
    /\ host_perfs # EmptyDict
    /\ \E w \in Workers : wpc[w] = "check"

\* the hostnames and the sentinels main() has put on the queue so far
HostsPut ==
    IF mainpc = "start_threads" THEN 0
    ELSE IF mainpc = "put" THEN mi ELSE Len(host_list)

NonesPut ==
    IF mainpc = "stop" THEN mi
    ELSE IF mainpc \in {"t_join", "output", "done"} THEN options.num_threads ELSE 0

\* the workers that dequeued a hostname and have not marked it done
Holders == {w \in Workers : Probing(w) \/ wpc[w] = "dead"}

\* C18: the hostnames still queued are the input occurrences not yet dequeued,
\* in order; every occurrence dequeued is held by one worker or was marked done
\* once; and when main() has the results every occurrence was dequeued and done.
C18_EachItemDequeuedOnce ==
    LET waiting == SelectSeq(q, LAMBDA x : x # None)
        taken   == HostsPut - Len(waiting)
        done    == HostsPut - (unfinished - NonesPut)
    IN /\ taken >= 0
       /\ waiting = SubSeq(host_list, taken + 1, HostsPut)
       /\ done >= 0
       /\ Cardinality(Holders) + done = taken
       /\ \A w \in Holders : h[w] \in Range(SubSeq(host_list, 1, taken))
       /\ Returned => (done = Len(host_list) /\ Holders = {})

\* two workers hold the two hostnames of the input, one each
C18_Witness ==
    /\ host_list = <<"a", "b">>
    /\ wpc[1] = "init"
    /\ wpc[2] = "init"
    /\ h[1] # h[2]
    /\ q = <<>>
====
